---- MODULE Spec2Model ----
(***************************************************************************)
(* Crawl-and-index pipeline of uni_search.                                 *)
(*                                                                         *)
(*   Spec       the index phase: WebIndexerBot (src/indexer.py), run by    *)
(*              main() as process_csv_file followed by save_to_json, over  *)
(*              several invocations, each of which may be killed.          *)
(*   SpecCrawl  the crawl phase: WebCrawler.crawl (src/crawler.py).        *)
(*   SpecSearch one call of SearchBot.search_by_keywords                   *)
(*              (src/ai_searcher.py, src/app.py).                          *)
(*   SpecExtract the extraction of one page by WebIndexerBot               *)
(*              (src/indexer.py) or AIWebsiteIndexer                       *)
(*              (src/indexer_crawler.py).                                  *)
(*                                                                         *)
(* The phases share nothing but files, so each specification leaves the    *)
(* other phases' variables at their initial values.                        *)
(***************************************************************************)
EXTENDS Integers, Sequences, FiniteSets, TLC

\* ------------------------------------------------------------------ bounds
\* Length of the discovered list.
CsvLen == 3
\* Number of invocations of main() in one behaviour.
MaxRuns == 2
\* Environment faults in one behaviour: fetches and extractions that fail,
\* Analyzer calls that do not return a complete analysis, file reads and
\* writes that fail, and kills.
MaxFaults == 1
\* Stand-in for the batch size cap (10 at src/indexer.py:418), scaled down so
\* that a run of CsvLen URLs spans more than one batch.
BatchCap == 2

\* Largest path number: the target site has pages 0..MaxPath, page 0 the seed's.
MaxPath == 2
\* Number of anchors on all pages of the site together.
MaxAnchors == 3
\* Fetches of one crawl that end in an error or an empty body.
MaxFetchFaults == 2
\* Items of the Repository a search goes through.
MaxItems == 3
\* Characters of a page's cleaned text, and links found on it, beyond the cap.
MaxOver == 1
\* Largest shift of the character pattern of a page's text.
MaxShift == 1

\* ------------------------------------------------- program constants
\* search_by_keywords: the default threshold and the weights of a match in
\* the keywords, the description, the title and the main topics, in tenths
\* (the code multiplies by 2, 1, 1.5 and 1.2).
threshold == 70
KeywordWeight == 20
DescriptionWeight == 10
TitleWeight == 15
TopicWeight == 12
\* The caps of the extractors: characters of text and number of links, in
\* WebIndexerBot.extract_clean_content and in
\* AIWebsiteIndexer.extract_webpage_content.
markdown_content_cap == 8000
internal_links_cap == 20
main_content_cap == 4000
links_cap == 20

\* ------------------------------------------------------- crawl phase: data
\* A URL: host, path and whether it carries a fragment. "t" is the target
\* host, "x" another host.
Paths == 0..MaxPath
Url(h, p, f) == [host |-> h, path |-> p, frag |-> f]
AllUrls == {Url(h, p, f) : h \in {"t", "x"}, p \in Paths, f \in BOOLEAN}
\* The hrefs a page may hold (absolute, as urljoin returns them): every page
\* of the site, page 1 with a fragment, and a page of the other host.
Hrefs == {Url("t", p, FALSE) : p \in Paths} \cup {Url("t", 1, TRUE), Url("x", 0, FALSE)}
\* base_url as given to WebCrawler: page 0 of the target, with or without a
\* fragment.
Seeds == {Url("t", 0, FALSE), Url("t", 0, TRUE)}
\* A page of the site not fetched so far, and one whose anchors are hs.
\* What the history keeps of a call of get_page_content.
NoFetch == [url |-> Url("t", 0, FALSE), outcome |-> "-"]
FetchOf(u, o) == [url |-> u, outcome |-> o]

UnknownPage == [known |-> FALSE, hrefs |-> {}]
KnownPage(hs) == [known |-> TRUE, hrefs |-> hs]

\* ------------------------------------------------------- index phase: data
Urls == 1..CsvLen

\* What the Analyzer call can do (analyze_with_groq, src/indexer.py:259-310).
AnalyzerOutcomes == {"analysis", "raises", "nojson", "badjson", "missing"}

\* A file on disk: absent, holding a complete JSON list, or holding the
\* truncated/partial text an interrupted or failed write leaves behind.
AbsentFile == [st |-> "absent", data |-> <<>>]
PartialFile == [st |-> "partial", data |-> <<>>]
JsonFile(rs) == [st |-> "json", data |-> rs]

\* Task results of asyncio.gather(..., return_exceptions=True).
NoResult == [tag |-> "pending", url |-> 0, kind |-> "-"]
NoneResult == [tag |-> "none", url |-> 0, kind |-> "-"]
ExcResult == [tag |-> "exception", url |-> 0, kind |-> "-"]
DictResult(u, k) == [tag |-> "dict", url |-> u, kind |-> k]

\* An IndexRecord as stored: its url and which analysis it carries.
Record(u, k) == [url |-> u, kind |-> k]

\* An entry of the Repository file that load_existing_results cannot handle:
\* it has a "url" whose value is not a string, so result['url'].strip() at
\* line 61 raises.
MalformedRecord == [url |-> 0, kind |-> "malformed"]

\* The keys of the dict process_url builds (lines 337-352); the dicts of
\* analyze_with_groq, fallbacks included, contribute values to these keys
\* and no key of their own.
ResultKeys ==
    {"url", "title", "keywords", "description", "relevance_score",
     "content_type", "main_topics", "language", "sentiment",
     "target_audience", "content_quality", "internal_links", "indexed_at",
     "word_count"}

Min(a, b) == IF a < b THEN a ELSE b

VARIABLES
    \* ---- index phase, on disk
    urls,             \* the discovered list (CSV column), in order
    outFile,          \* OUTPUT_FILE: the Repository
    ckptFile,         \* OUTPUT_FILE with .json replaced by _checkpoint.json
    \* ---- index phase, the bot of the current invocation
    max_concurrent, max_links,
    pc,               \* position of main(): idle, batch, gather, flush, save, done
    run,              \* invocations of main() started so far
    indexed_urls, existing_results, remaining_urls,
    new_results, all_results, results,
    batch_i,          \* the loop variable i of the batch loop
    stage,            \* per task: created, waiting, fetching, cooldown, done
    result,           \* per task: what the task returned to gather
    semaphore,        \* free slots of self.semaphore
    \* ---- index phase, history (observations, not program state)
    repoAtStart,      \* URLs of the records the Repository held when this run started
    outAtStart,       \* records the Repository held when this run started
    csvRead,          \* this run read the discovered list (line 376 succeeded)
    earlyReturn,      \* this run left process_csv_file at line 399 or 403
    saveOk,           \* this run's save_to_json wrote the file
    flushed,          \* records of the checkpoint this run last completed and
                      \* has not since overwritten or superseded by save_to_json
    prevFlushed,      \* flushed of the previous invocation, if it was killed
    flushFailed,      \* a checkpoint write of this run did not succeed
    flushRan,         \* batch start indices whose checkpoint step has finished
    faults,           \* environment faults so far (bounded by MaxFaults)
    pageFailed,       \* a fetch, an extraction or an analysis has failed so far
    overtook          \* in the batch being gathered or just collected, a task
                      \* finished while a task submitted before it had not

VARIABLES
    \* ---- crawl phase: the site
    web,              \* per page of the site: its anchors, once it was served
    \* ---- crawl phase: the WebCrawler
    base_url, domain, max_pages,
    visited_urls, all_links, to_visit, failed_urls,
    pages_crawled,    \* the local of crawl()
    crawl_pc,         \* idle (not constructed), loop (in the while of crawl), returned
    \* ---- crawl phase, history
    fetchCount,       \* per URL: calls of get_page_content on it
    lastFetch,        \* the last call of get_page_content: its URL and outcome
    discoveredAt,     \* per URL: 0 if never enqueued, else 1 for the seed and
                      \* 1 + the number of the visit that first enqueued it
    skipped,          \* the URLs that were dequeued and dropped at line 79
    fetchFaults       \* fetches that failed or came back empty (bounded)

VARIABLES
    \* ---- search: the SearchBot and one call of search_by_keywords
    indexed_data,     \* the items loaded from the Repository, each with the
                      \* similarities the query has to its fields
    search_results,   \* the local "results" of search_by_keywords
    item_i,           \* items of indexed_data the loop has gone through
    search_pc         \* idle (no call), loop, returned

crawlVars == <<web, base_url, domain, max_pages, visited_urls, all_links,
               to_visit, failed_urls, pages_crawled, crawl_pc, fetchCount,
               discoveredAt, skipped, lastFetch, fetchFaults>>

ixVars == <<urls, outFile, ckptFile, max_concurrent, max_links, pc, run,
            indexed_urls, existing_results, remaining_urls, new_results,
            all_results, results, batch_i, stage, result, semaphore>>
ixHist == <<repoAtStart, outAtStart, csvRead, earlyReturn, saveOk, flushed, prevFlushed,
            flushFailed, flushRan>>

searchVars == <<indexed_data, search_results, item_i, search_pc>>

VARIABLES
    \* ---- extraction of one page
    extractor,        \* the class whose extractor runs
    cleaned_text,     \* the page's text after the re.sub clean-up
    page_anchors,     \* the <a href> elements the loop goes through, in order
    content,          \* the text in the dict returned
    internal_links,   \* the link list in the dict returned
    extract_pc        \* idle (no extraction), cleaned, extracted

extractVars == <<extractor, cleaned_text, page_anchors, content, internal_links,
                 extract_pc>>

vars == <<ixVars, ixHist, faults, pageFailed, overtook, crawlVars, searchVars,
          extractVars>>

\* ------------------------------------------------- index phase: functions
Range(s) == {s[i] : i \in 1..Len(s)}

\* Records a file yields to json.load: none unless it holds complete JSON.
FileRecords(f) == IF f.st = "json" THEN f.data ELSE <<>>

\* load_existing_results: the list returned and the indexed_urls it adds.
\* The loop of lines 59-61 adds the URLs in file order; an entry it cannot
\* handle ends it in the except branch (lines 68-70), which returns [] and
\* leaves in indexed_urls what the loop had added.
load_existing_results(f) ==
    IF f.st = "absent" THEN [results |-> <<>>, indexed |-> {}]
    ELSE IF f.st = "json"
         THEN LET bad == {i \in 1..Len(f.data) : f.data[i] = MalformedRecord}
                  stop == IF bad = {} THEN Len(f.data) + 1
                          ELSE CHOOSE i \in bad : \A j \in bad : i <= j
                  seen == {f.data[i].url : i \in 1..(stop - 1)}
              IN IF bad = {} THEN [results |-> f.data, indexed |-> seen]
                 ELSE [results |-> <<>>, indexed |-> seen]
         ELSE [results |-> <<>>, indexed |-> {}]

\* find_last_indexed_position: 0-based index of the last URL of the list that
\* is in indexed_urls, -1 if none or if the CSV cannot be read.
find_last_indexed_position(us, indexed, readOk) ==
    IF ~readOk THEN -1
    ELSE LET hits == {i \in 0..(Len(us) - 1) : us[i + 1] \in indexed}
         IN IF hits = {} THEN -1
            ELSE CHOOSE i \in hits : \A j \in hits : j <= i

\* Faulty variant of NotYetIndexed: the work list is not filtered by
\* indexed_urls (C3 must notice).
NotYetIndexed_Unfiltered(u, indexed) == TRUE

\* Line 387: the test that keeps a URL of urls[start_index:] in the work list.
NotYetIndexed(u, indexed) == u \notin indexed

\* Lines 385-388: (position, url) pairs of the URLs from start_index on that
\* are not indexed, in list order.
RECURSIVE RemainingFrom(_, _, _)
RemainingFrom(us, i, indexed) ==
    IF i >= Len(us) THEN <<>>
    ELSE (IF NotYetIndexed(us[i + 1], indexed) THEN <<<<i, us[i + 1]>>>> ELSE <<>>)
         \o RemainingFrom(us, i + 1, indexed)

\* Faulty variant of SessionCap: the work list is not cut (C25 must notice).
SessionCap_Uncapped(rem, cap) == rem

\* Lines 393-394: the session cap.
SessionCap(rem, cap) == IF Len(rem) > cap THEN SubSeq(rem, 1, cap) ELSE rem

\* Lines 380-395: the work list of a run.
WorkList(us, indexed, posOk, cap) ==
    LET last_index == find_last_indexed_position(us, indexed, posOk)
        start_index == last_index + 1
    IN SessionCap(RemainingFrom(us, start_index, indexed), cap)

\* Line 418.
batch_size(n) == Min(BatchCap, n)

\* Faulty variant of BatchTasks: every task from i on is gathered at once
\* (C8 must notice).
BatchTasks_Unbatched(i, n) == {t \in 1..n : i < t}

\* Line 420: tasks[i:i + batch_size], as 1-based task numbers.
BatchTasks(i, n) == {t \in 1..n : i < t /\ t <= i + batch_size(n)}

\* analyze_with_groq: the dict returned for each Analyzer outcome; complete
\* says whether it has every key process_url reads (lines 340-348).
analyze_with_groq(o) ==
    CASE o = "analysis" -> [kind |-> "analysis", complete |-> TRUE]
      [] o = "missing"  -> [kind |-> "analysis", complete |-> FALSE]
      [] o = "nojson"   -> [kind |-> "unparsed", complete |-> TRUE]
      [] o = "badjson"  -> [kind |-> "error", complete |-> TRUE]
      [] o = "raises"   -> [kind |-> "error", complete |-> TRUE]

\* process_url, lines 334-355: the task's result once the page is extracted.
ProcessResult(u, o) ==
    LET analysis == analyze_with_groq(o)
    IN IF analysis.complete THEN DictResult(u, analysis.kind) ELSE ExcResult

\* Faulty variant of BatchRecords: the results are gone through from the
\* last task of the batch to the first (C36 must notice).
RECURSIVE BatchRecords_Reversed(_, _, _)
BatchRecords_Reversed(res, t, last) ==
    IF t > last THEN <<>>
    ELSE BatchRecords_Reversed(res, t + 1, last)
         \o (IF res[t].tag = "dict" THEN <<Record(res[t].url, res[t].kind)>> ELSE <<>>)

\* Lines 424-430: the records a batch's results append, in gather order.
RECURSIVE BatchRecords(_, _, _)
BatchRecords(res, t, last) ==
    IF t > last THEN <<>>
    ELSE (IF res[t].tag = "dict" THEN <<Record(res[t].url, res[t].kind)>> ELSE <<>>)
         \o BatchRecords(res, t + 1, last)

\* Faulty variant of CheckpointArg: only this run's records are flushed (C26
\* must notice).
CheckpointArg_NewOnly(all, new) == new

\* Line 434: the list handed to save_progress_checkpoint.
CheckpointArg(all, new) == all

\* Faulty variant of GatherReturns: the coordinator goes on as soon as one
\* task of the batch has finished (C27 must notice).
GatherReturns_FirstCompleted(st, res, B) == \E t \in B : st[t] = "done"

\* Faulty variant of GatherReturns: gather without return_exceptions, which
\* returns as soon as one task has raised (C21 must notice).
GatherReturns_Raising(st, res, B) ==
    \/ \A t \in B : st[t] = "done"
    \/ \E t \in B : res[t].tag = "exception"

\* Line 421: asyncio.gather(..., return_exceptions=True) returns when every
\* task of the batch B has returned or raised.
GatherReturns(st, res, B) == \A t \in B : st[t] = "done"

\* Faulty variant of CheckpointAfterSave: the checkpoint file is left in
\* place (C37 must notice).
CheckpointAfterSave_Kept(ckpt) == ckpt

\* save_to_json lines 460-464: after the dump the checkpoint file is removed
\* if it exists.
CheckpointAfterSave(ckpt) == AbsentFile

\* Faulty variant of SlotFree: the semaphore admits every task (C7 must
\* notice).
SlotFree_Unbounded(sem) == TRUE

\* asyncio.Semaphore.acquire proceeds only while a slot is free (line 322).
SlotFree(sem) == sem > 0

\* The discovered lists considered: every list of CsvLen URLs up to renaming
\* of URLs (a new URL is always the next unused number); repeats included.
CsvLists ==
    {s \in [1..CsvLen -> Urls] :
        /\ s[1] = 1
        /\ \A i \in 2..CsvLen : \E j \in 1..(i - 1) : s[i] <= s[j] + 1}
\* The list save_results of the crawler writes: no URL twice.
NoRepeatList == [i \in 1..CsvLen |-> i]

\* The bots considered: a concurrency bound up to the batch size (a larger one
\* never binds) and a session cap up to the length of the list (likewise).
ConcurrencyBounds == 1..BatchCap
SessionCaps == 1..CsvLen

NTasks == Len(remaining_urls)
InPipeline(t) == stage[t] \in {"fetching", "cooldown"}

\* The bot as WebIndexerBot.__init__ leaves it, with no run in progress.
FreshBot ==
    /\ indexed_urls' = {}
    /\ existing_results' = <<>>
    /\ remaining_urls' = <<>>
    /\ new_results' = <<>>
    /\ all_results' = <<>>
    /\ results' = <<>>
    /\ batch_i' = 0
    /\ stage' = <<>>
    /\ result' = <<>>
    /\ semaphore' = max_concurrent

\* No crawler constructed.
CrawlIdle ==
    /\ web = [p \in Paths |-> UnknownPage]
    /\ base_url = Url("t", 0, FALSE)
    /\ domain = "t"
    /\ max_pages = 1
    /\ visited_urls = {}
    /\ all_links = {}
    /\ to_visit = <<>>
    /\ failed_urls = <<>>
    /\ pages_crawled = 0
    /\ crawl_pc = "idle"
    /\ fetchCount = [u \in AllUrls |-> 0]
    /\ discoveredAt = [u \in AllUrls |-> 0]
    /\ skipped = {}
    /\ lastFetch = NoFetch
    /\ fetchFaults = 0

\* No extraction running.
ExtractIdle ==
    /\ extractor = "WebIndexerBot"
    /\ cleaned_text = <<>>
    /\ page_anchors = <<>>
    /\ content = <<>>
    /\ internal_links = <<>>
    /\ extract_pc = "idle"

\* No search called.
SearchIdle ==
    /\ indexed_data = <<>>
    /\ search_results = <<>>
    /\ item_i = 0
    /\ search_pc = "idle"

\* No invocation of the indexer so far, the Repository not yet written.
IndexIdle ==
    /\ pc = "idle"
    /\ run = 0
    /\ indexed_urls = {}
    /\ existing_results = <<>>
    /\ remaining_urls = <<>>
    /\ new_results = <<>>
    /\ all_results = <<>>
    /\ results = <<>>
    /\ batch_i = 0
    /\ stage = <<>>
    /\ result = <<>>
    /\ semaphore = max_concurrent
    /\ repoAtStart = {}
    /\ outAtStart = <<>>
    /\ csvRead = FALSE
    /\ earlyReturn = FALSE
    /\ saveOk = FALSE
    /\ flushed = <<>>
    /\ prevFlushed = <<>>
    /\ flushFailed = FALSE
    /\ flushRan = {}
    /\ faults = 0
    /\ pageFailed = FALSE
    /\ overtook = FALSE

Init ==
    /\ urls = NoRepeatList \/ urls \in (CsvLists \ {NoRepeatList})
    /\ outFile = AbsentFile
    /\ ckptFile = AbsentFile
    /\ max_concurrent \in ConcurrencyBounds
    /\ max_links \in SessionCaps
    /\ IndexIdle
    /\ CrawlIdle
    /\ SearchIdle
    /\ ExtractIdle

\* ---------------------------------------------------- index phase: actions
\* The environment spends n of its fault budget.
Fault(n) == faults + n <= MaxFaults /\ faults' = faults + n
B2N(b) == IF b THEN 1 ELSE 0

\* main() is invoked: a new bot is constructed and process_csv_file runs from
\* line 369 to the first await (line 421) or to an early return.
\*   csvOk: pd.read_csv at line 376 succeeds; posOk: the second read of the
\*   CSV, inside find_last_indexed_position, succeeds.
Start(csvOk, posOk) ==
    /\ pc \in {"idle", "done"}
    /\ run < MaxRuns
    /\ run' = run + 1
    /\ LET loaded == load_existing_results(outFile)
           work == IF csvOk THEN WorkList(urls, loaded.indexed, posOk, max_links)
                   ELSE <<>>
       IN /\ indexed_urls' = loaded.indexed
          /\ existing_results' = loaded.results
          /\ remaining_urls' = work
          /\ stage' = [t \in 1..Len(work) |-> "created"]
          /\ result' = [t \in 1..Len(work) |-> NoResult]
          /\ earlyReturn' = (work = <<>>)
          /\ pc' = IF work = <<>> THEN "save" ELSE "batch"
          /\ all_results' = IF work = <<>> THEN <<>> ELSE loaded.results
    /\ new_results' = <<>>
    /\ results' = <<>>
    /\ batch_i' = 0
    /\ semaphore' = max_concurrent
    /\ repoAtStart' = {FileRecords(outFile)[i].url : i \in 1..Len(FileRecords(outFile))}
    /\ outAtStart' = FileRecords(outFile)
    /\ csvRead' = csvOk
    /\ saveOk' = FALSE
    /\ prevFlushed' = flushed
    /\ flushed' = <<>>
    /\ flushFailed' = FALSE
    /\ flushRan' = {}
    /\ UNCHANGED <<urls, outFile, ckptFile, max_concurrent, max_links>>
    /\ csvOk \/ posOk
    /\ Fault(B2N(~csvOk) + B2N(~posOk))
    /\ UNCHANGED pageFailed
    /\ overtook' = FALSE
    /\ UNCHANGED <<crawlVars, searchVars, extractVars>>

\* Line 421: asyncio.gather schedules the coroutines of the batch at i.
BatchStart ==
    /\ pc = "batch"
    /\ stage' = [t \in 1..NTasks |->
                    IF t \in BatchTasks(batch_i, NTasks) THEN "waiting" ELSE stage[t]]
    /\ pc' = "gather"
    /\ UNCHANGED <<urls, outFile, ckptFile, max_concurrent, max_links, run,
                   indexed_urls, existing_results, remaining_urls, new_results,
                   all_results, results, batch_i, result, semaphore, ixHist>>
    /\ UNCHANGED <<faults, pageFailed>>
    /\ overtook' = FALSE
    /\ UNCHANGED <<crawlVars, searchVars, extractVars>>

\* process_url line 322: the task enters the semaphore and starts its fetch.
\* asyncio.Semaphore wakes its waiters in the order they arrived, which is
\* the order gather scheduled them.
Acquire(t) ==
    /\ pc = "gather"
    /\ stage[t] = "waiting"
    /\ \A w \in 1..(t - 1) : stage[w] # "waiting"
    /\ SlotFree(semaphore)
    /\ semaphore' = semaphore - 1
    /\ stage' = [stage EXCEPT ![t] = "fetching"]
    /\ UNCHANGED <<urls, outFile, ckptFile, max_concurrent, max_links, pc, run,
                   indexed_urls, existing_results, remaining_urls, new_results,
                   all_results, results, batch_i, result, ixHist>>
    /\ UNCHANGED <<faults, pageFailed>>
    /\ UNCHANGED overtook
    /\ UNCHANGED <<crawlVars, searchVars, extractVars>>

\* process_url lines 326-331 with extract_clean_content succeeding: the page
\* is fetched and extracted and the task sleeps for the cooldown.
FetchOk(t) ==
    /\ pc = "gather"
    /\ stage[t] = "fetching"
    /\ stage' = [stage EXCEPT ![t] = "cooldown"]
    /\ UNCHANGED <<urls, outFile, ckptFile, max_concurrent, max_links, pc, run,
                   indexed_urls, existing_results, remaining_urls, new_results,
                   all_results, results, batch_i, result, semaphore, ixHist>>
    /\ UNCHANGED <<faults, pageFailed>>
    /\ UNCHANGED overtook
    /\ UNCHANGED <<crawlVars, searchVars, extractVars>>

\* Task t is finishing while a task gather scheduled before it, in the same
\* batch, has not finished.
Overtakes(t) ==
    \E w \in BatchTasks(batch_i, NTasks) : w < t /\ stage[w] # "done"

\* process_url lines 326-328 with extract_clean_content returning None
\* (status other than 200, network error, or no content region and no body):
\* the task returns None and leaves the semaphore.
FetchFail(t) ==
    /\ pc = "gather"
    /\ stage[t] = "fetching"
    /\ stage' = [stage EXCEPT ![t] = "done"]
    /\ result' = [result EXCEPT ![t] = NoneResult]
    /\ semaphore' = semaphore + 1
    /\ UNCHANGED <<urls, outFile, ckptFile, max_concurrent, max_links, pc, run,
                   indexed_urls, existing_results, remaining_urls, new_results,
                   all_results, results, batch_i, ixHist>>
    /\ Fault(1)
    /\ pageFailed' = TRUE
    /\ overtook' = (overtook \/ Overtakes(t))
    /\ UNCHANGED <<crawlVars, searchVars, extractVars>>

\* process_url lines 334-355: the cooldown is over, the Analyzer is called
\* (synchronously) with outcome o, and the task returns or raises; either way
\* it leaves the semaphore.
Analyze(t, o) ==
    /\ pc = "gather"
    /\ stage[t] = "cooldown"
    /\ stage' = [stage EXCEPT ![t] = "done"]
    /\ result' = [result EXCEPT ![t] = ProcessResult(remaining_urls[t][2], o)]
    /\ semaphore' = semaphore + 1
    /\ UNCHANGED <<urls, outFile, ckptFile, max_concurrent, max_links, pc, run,
                   indexed_urls, existing_results, remaining_urls, new_results,
                   all_results, results, batch_i, ixHist>>
    /\ Fault(IF o = "analysis" THEN 0 ELSE 1)
    /\ pageFailed' = (pageFailed \/ o # "analysis")
    /\ overtook' = (overtook \/ Overtakes(t))
    /\ UNCHANGED <<crawlVars, searchVars, extractVars>>

\* Lines 421-430: gather returns once every task of the batch is done, and the
\* loop over batch_results appends the dict results.
Collect ==
    /\ pc = "gather"
    /\ GatherReturns(stage, result, BatchTasks(batch_i, NTasks))
    /\ LET recs == BatchRecords(result, batch_i + 1,
                                Min(batch_i + batch_size(NTasks), NTasks))
       IN /\ new_results' = new_results \o recs
          /\ all_results' = all_results \o recs
          /\ indexed_urls' = indexed_urls \cup {recs[i].url : i \in 1..Len(recs)}
    /\ pc' = "flush"
    /\ UNCHANGED <<urls, outFile, ckptFile, max_concurrent, max_links, run,
                   existing_results, remaining_urls, results, batch_i, stage,
                   result, semaphore, ixHist>>
    /\ UNCHANGED <<faults, pageFailed>>
    /\ UNCHANGED overtook
    /\ UNCHANGED <<crawlVars, searchVars, extractVars>>

\* Line 419 (next i) and lines 438-440: after the checkpoint step the loop
\* goes on to the next batch, or ends and sets self.results.
AfterFlush ==
    LET next_i == batch_i + batch_size(NTasks)
    IN /\ batch_i' = next_i
       /\ flushRan' = flushRan \cup {batch_i}
       /\ IF next_i < NTasks
          THEN pc' = "batch" /\ results' = results
          ELSE pc' = "save" /\ results' = all_results

\* Lines 433-434 with save_progress_checkpoint writing the file.
FlushOk ==
    /\ pc = "flush"
    /\ new_results # <<>>
    /\ ckptFile' = JsonFile(CheckpointArg(all_results, new_results))
    /\ flushed' = CheckpointArg(all_results, new_results)
    /\ AfterFlush
    /\ UNCHANGED <<urls, outFile, max_concurrent, max_links, run, indexed_urls,
                   existing_results, remaining_urls, new_results, all_results,
                   stage, result, semaphore, repoAtStart, outAtStart, csvRead,
                   earlyReturn, saveOk, prevFlushed, flushFailed>>
    /\ UNCHANGED <<faults, pageFailed>>
    /\ overtook' = FALSE
    /\ UNCHANGED <<crawlVars, searchVars, extractVars>>

\* Lines 433-434 with the write failing: save_progress_checkpoint (lines
\* 110-115) logs the exception and returns. opened: open() had already
\* truncated the file when the write failed.
FlushFail(opened) ==
    /\ pc = "flush"
    /\ new_results # <<>>
    /\ ckptFile' = IF opened THEN PartialFile ELSE ckptFile
    /\ flushed' = IF opened THEN <<>> ELSE flushed
    /\ flushFailed' = TRUE
    /\ AfterFlush
    /\ UNCHANGED <<urls, outFile, max_concurrent, max_links, run, indexed_urls,
                   existing_results, remaining_urls, new_results, all_results,
                   stage, result, semaphore, repoAtStart, outAtStart, csvRead,
                   earlyReturn, saveOk, prevFlushed>>
    /\ Fault(1)
    /\ UNCHANGED pageFailed
    /\ overtook' = FALSE
    /\ UNCHANGED <<crawlVars, searchVars, extractVars>>

\* Line 433 with new_results empty: no checkpoint is written.
FlushSkip ==
    /\ pc = "flush"
    /\ new_results = <<>>
    /\ AfterFlush
    /\ UNCHANGED <<urls, outFile, ckptFile, max_concurrent, max_links, run,
                   indexed_urls, existing_results, remaining_urls, new_results,
                   all_results, stage, result, semaphore, repoAtStart,
                   outAtStart, csvRead, earlyReturn, saveOk, flushed,
                   prevFlushed, flushFailed>>
    /\ UNCHANGED <<faults, pageFailed>>
    /\ overtook' = FALSE
    /\ UNCHANGED <<crawlVars, searchVars, extractVars>>

\* main line 540, save_to_json writing self.results and removing the
\* checkpoint file (lines 451-464); the process then ends.
SaveOk ==
    /\ pc = "save"
    /\ outFile' = JsonFile(results)
    /\ ckptFile' = CheckpointAfterSave(ckptFile)
    /\ saveOk' = TRUE
    /\ flushed' = <<>>
    /\ pc' = "done"
    /\ UNCHANGED <<urls, max_concurrent, max_links, run, indexed_urls,
                   existing_results, remaining_urls, new_results, all_results,
                   results, batch_i, stage, result, semaphore, repoAtStart,
                   outAtStart, csvRead, earlyReturn, prevFlushed, flushFailed,
                   flushRan>>
    /\ UNCHANGED <<faults, pageFailed>>
    /\ UNCHANGED overtook
    /\ UNCHANGED <<crawlVars, searchVars, extractVars>>

\* save_to_json with the write failing (lines 466-467): the exception is
\* logged, the checkpoint file is not removed.
SaveFail(opened) ==
    /\ pc = "save"
    /\ outFile' = IF opened THEN PartialFile ELSE outFile
    /\ flushed' = <<>>
    /\ pc' = "done"
    /\ UNCHANGED <<urls, ckptFile, max_concurrent, max_links, run, indexed_urls,
                   existing_results, remaining_urls, new_results, all_results,
                   results, batch_i, stage, result, semaphore, repoAtStart,
                   outAtStart, csvRead, earlyReturn, saveOk, prevFlushed,
                   flushFailed, flushRan>>
    /\ Fault(1)
    /\ UNCHANGED pageFailed
    /\ UNCHANGED overtook
    /\ UNCHANGED <<crawlVars, searchVars, extractVars>>

\* The process is killed (or the run cancelled) while main() is running.
\* midWrite: the kill falls inside the file write the run was performing
\* (open(..., 'w') has truncated the file, json.dump has not finished).
Kill(midWrite) ==
    /\ pc \in {"batch", "gather", "flush", "save"}
    /\ midWrite => \/ pc = "flush" /\ new_results # <<>>
                   \/ pc = "save"
    /\ ckptFile' = IF midWrite /\ pc = "flush" THEN PartialFile ELSE ckptFile
    /\ outFile' = IF midWrite /\ pc = "save" THEN PartialFile ELSE outFile
    /\ pc' = "idle"
    /\ FreshBot
    /\ UNCHANGED <<urls, max_concurrent, max_links, run, ixHist>>
    /\ Fault(1)
    /\ UNCHANGED pageFailed
    /\ overtook' = FALSE
    /\ UNCHANGED <<crawlVars, searchVars, extractVars>>

\* Between two runs the Repository file is replaced by one that save_to_json
\* did not write (edited by hand, or produced by another tool): the record
\* of u followed by an entry load_existing_results cannot handle.
ForeignRepository(u) ==
    /\ pc \in {"idle", "done"}
    /\ outFile' = JsonFile(<<Record(u, "analysis"), MalformedRecord>>)
    /\ UNCHANGED <<urls, ckptFile, max_concurrent, max_links, pc, run,
                   indexed_urls, existing_results, remaining_urls, new_results,
                   all_results, results, batch_i, stage, result, semaphore, ixHist>>
    /\ Fault(1)
    /\ UNCHANGED pageFailed
    /\ UNCHANGED overtook
    /\ UNCHANGED <<crawlVars, searchVars, extractVars>>

Next ==
    \/ \E csvOk \in BOOLEAN, posOk \in BOOLEAN : Start(csvOk, posOk)
    \/ BatchStart
    \/ \E t \in 1..NTasks : Acquire(t)
    \/ \E t \in 1..NTasks : FetchOk(t)
    \/ \E t \in 1..NTasks : FetchFail(t)
    \/ \E t \in 1..NTasks, o \in AnalyzerOutcomes : Analyze(t, o)
    \/ Collect
    \/ FlushOk
    \/ \E opened \in BOOLEAN : FlushFail(opened)
    \/ FlushSkip
    \/ SaveOk
    \/ \E opened \in BOOLEAN : SaveFail(opened)
    \/ \E midWrite \in BOOLEAN : Kill(midWrite)
    \/ \E u \in Urls : ForeignRepository(u)

Spec == Init /\ [][Next]_vars

\* ==================================================== index phase: claims
Entered(t) == stage[t] \in {"fetching", "cooldown", "done"}
RecordUrls(rs) == {rs[i].url : i \in 1..Len(rs)}
\* Tasks whose batch the loop at lines 424-430 has gone through.
Collected ==
    {t \in 1..NTasks :
        t <= (IF pc = "flush" THEN batch_i + batch_size(NTasks) ELSE batch_i)}

\* C2: in a run restarted after a kill, every record that the killed run had
\* flushed to a checkpoint is among the records the restarted run loads, and
\* no task of the restarted run fetches the URL of such a record.
C2_FlushedWorkSurvivesKill ==
    (pc # "idle") =>
        /\ Range(prevFlushed) \subseteq Range(existing_results)
        /\ \A t \in 1..NTasks :
              Entered(t) => remaining_urls[t][2] \notin RecordUrls(prevFlushed)

\* C3: a URL whose record was in the Repository when the run started is never
\* fetched (and so never analyzed) by that run.
C3_IndexedNotRefetched ==
    \A t \in 1..NTasks : Entered(t) => remaining_urls[t][2] \notin repoAtStart

\* C3 witness: a run that started with a non-empty Repository is fetching.
C3_Witness ==
    /\ repoAtStart # {}
    /\ \E t \in 1..NTasks : stage[t] = "fetching"

\* C4: a run that schedules nothing (everything indexed, or the list
\* unreadable) and whose save_to_json succeeds leaves the records of the
\* Repository as they were when it started.
C4_RerunKeepsRepository ==
    (pc = "done" /\ earlyReturn /\ saveOk) => FileRecords(outFile) = outAtStart

\* C5: the work list of a run that read the discovered list is the list's
\* URLs that had no record at startup, in list order, cut at the session cap.
C5_WorkListIsUnindexed ==
    (pc # "idle" /\ csvRead) =>
        remaining_urls = SessionCap(RemainingFrom(urls, 0, repoAtStart), max_links)

\* C6: once a batch has been collected, the run's result set holds one record
\* for each of its tasks whose page was fetched and extracted, whatever the
\* Analyzer did.
C6_OneRecordPerExtractedPage ==
    Len(new_results) = Cardinality({t \in Collected : result[t].tag # "none"})

\* C7: at most max_concurrent URLs are inside the pipeline, and each of them
\* holds one slot of the semaphore from before its fetch until its end.
C7_ConcurrencyBound ==
    /\ Cardinality({t \in 1..NTasks : InPipeline(t)}) <= max_concurrent
    /\ semaphore = max_concurrent - Cardinality({t \in 1..NTasks : InPipeline(t)})

\* C7 witness: every slot is taken while another URL of the batch waits.
C7_Witness ==
    /\ Cardinality({t \in 1..NTasks : InPipeline(t)}) = max_concurrent
    /\ \E t \in 1..NTasks : stage[t] = "waiting"

\* C8: while a URL is scheduled or in the pipeline, every URL of every earlier
\* batch has finished and been collected, and the checkpoint step of every
\* earlier batch is over (save_progress_checkpoint has returned, or there was
\* nothing new to flush).
C8_BatchBarrier ==
    \A t \in 1..NTasks :
        stage[t] \in {"waiting", "fetching", "cooldown"} =>
            \A e \in 1..NTasks :
                (e - 1) \div batch_size(NTasks) < (t - 1) \div batch_size(NTasks) =>
                    /\ stage[e] = "done"
                    /\ e \in Collected
                    /\ ((e - 1) \div batch_size(NTasks)) * batch_size(NTasks) \in flushRan

\* C8 witness: a URL of the second batch is being fetched.
C8_Witness ==
    \E t \in 1..NTasks : stage[t] = "fetching" /\ t > batch_size(NTasks)

\* C9: after a checkpoint write that did not succeed no further batch runs.
C9_StopAfterFailedFlush == flushFailed => pc # "gather"

\* C10: the last completed checkpoint is on disk, complete, at every point of
\* the run and after any interruption of it.
C10_CheckpointSurvivesInterrupt == (flushed # <<>>) => ckptFile = JsonFile(flushed)

\* Every URL of the discovered list has a record in the Repository this run
\* loaded.
AllIndexedAtStart == Range(urls) \subseteq repoAtStart

\* This run read the discovered list and found nothing left to schedule
\* (line 397-399, "Tutti gli URLs sono già stati processati").
NothingLeft == pc # "idle" /\ csvRead /\ earlyReturn

\* C11: across repeated runs in which every fetch, extraction and analysis
\* succeeds, every URL of the discovered list eventually has a record in the
\* Repository. Finite-run form: as long as no page has failed, a run finds
\* nothing left to schedule only when every URL of the list has a record; a
\* run that finds nothing left while a URL has no record schedules no work
\* for it, and neither does any later run that loads the same Repository.
C11_NothingLeftOnlyWhenAllIndexed ==
    (NothingLeft /\ ~pageFailed) => AllIndexedAtStart

\* The record carries the values of one of the two fallback dicts of
\* analyze_with_groq (lines 280-290 and 297-307): the Analyzer failed or its
\* output could not be parsed.
Degraded(r) == r.kind \in {"unparsed", "error"}

\* The record has a field of its own that marks it as an error record, as
\* the "error" key of AIWebsiteIndexer._create_fallback_result does.
HasErrorMarker(r) == "error" \in ResultKeys

\* C20: whenever the Analyzer fails or returns unparseable output, the record
\* emitted for that URL carries an explicit error marker that distinguishes
\* it from a normally analyzed record.
C20_DegradedRecordIsMarked ==
    \A i \in 1..Len(all_results) :
        Degraded(all_results[i]) => HasErrorMarker(all_results[i])

\* A task of the batch being gathered can take its next step.
CanStep(t) ==
    \/ InPipeline(t)
    \/ /\ stage[t] = "waiting"
       /\ SlotFree(semaphore)
       /\ \A w \in 1..(t - 1) : stage[w] # "waiting"

\* The task ended with a per-URL error: extract_clean_content returned None
\* or process_url raised.
Failed(t) == result[t].tag \in {"none", "exception"}

\* C21: a per-URL error never aborts the batch: while a URL of the batch is
\* not finished one of them can go on, whatever the others returned; a batch
\* is collected only when every URL of it has reached its terminal state;
\* and the run reaches its end only with every scheduled URL finished.
C21_ErrorDoesNotAbortBatch ==
    /\ (pc = "gather" /\ \E t \in BatchTasks(batch_i, NTasks) : stage[t] # "done")
          => \E t \in BatchTasks(batch_i, NTasks) : CanStep(t)
    /\ \A b \in flushRan \cup (IF pc = "flush" THEN {batch_i} ELSE {}) :
          \A t \in BatchTasks(b, NTasks) : stage[t] = "done"
    /\ (pc \in {"save", "done"} /\ ~earlyReturn) => \A t \in 1..NTasks : stage[t] = "done"

\* C21 witness: the first URL of the first batch failed, the second produced
\* its record, and a URL of the next batch is in the pipeline.
C21_Witness ==
    /\ NTasks = CsvLen
    /\ Failed(1)
    /\ result[2].tag = "dict"
    /\ \E t \in 1..NTasks : t > batch_size(NTasks) /\ InPipeline(t)

\* The URL of task t (line 408: process_url(url) for the t-th remaining URL).
TaskUrl(t) == remaining_urls[t][2]

\* C22: a URL whose fetch or extraction failed yields no record, is not in
\* indexed_urls, and is not attempted again within the run.
C22_FailedUrlIsTerminal ==
    \A t \in 1..NTasks :
        result[t].tag = "none" =>
            /\ TaskUrl(t) \notin RecordUrls(new_results)
            /\ TaskUrl(t) \notin indexed_urls
            /\ \A t2 \in 1..NTasks \ {t} : TaskUrl(t2) = TaskUrl(t) => ~Entered(t2)

\* No two records of the sequence have the same URL.
UniqueUrls(rs) == \A i, j \in 1..Len(rs) : rs[i].url = rs[j].url => i = j

\* C23: after any sequence of runs over any discovered list, no two records
\* of the result set written to the Repository have the same URL.
C23_RepositoryUrlsUnique == UniqueUrls(FileRecords(outFile))

\* The records the run holds: those load_existing_results returned and those
\* the result loop appended.
HeldRecords == existing_results \o new_results

\* C24: at every point of a run every URL of indexed_urls is the URL of a
\* record the run holds, also when loading the Repository failed partway
\* through.
C24_IndexedUrlsHaveRecords == indexed_urls \subseteq RecordUrls(HeldRecords)

\* C25: a run starts the pipeline for at most max_links URLs, however many
\* unindexed URLs the discovered list still holds; the others get no task.
C25_SessionCap ==
    /\ NTasks <= max_links
    /\ Cardinality({t \in 1..NTasks : Entered(t)}) <= max_links

\* C25 witness: a finished run whose list held more unindexed URLs than
\* max_links and that processed exactly max_links of them.
C25_Witness ==
    /\ pc = "done"
    /\ Len(RemainingFrom(urls, 0, repoAtStart)) > max_links
    /\ Cardinality({t \in 1..NTasks : Entered(t)}) = max_links

\* The checkpoint step of the last collected batch is over and wrote the
\* file: the run is between that step and the next batch or the final save.
JustFlushed ==
    /\ pc \in {"batch", "save"}
    /\ ~earlyReturn
    /\ new_results # <<>>
    /\ ~flushFailed

\* C26: every checkpoint written after a batch holds the records loaded from
\* the Repository at startup followed by every record the run has produced
\* so far, and nothing else.
C26_CheckpointIsAccumulatedSet ==
    JustFlushed => ckptFile = JsonFile(existing_results \o new_results)

\* C26 witness: a checkpoint written by a run that had loaded records.
C26_Witness ==
    /\ JustFlushed
    /\ existing_results # <<>>
    /\ ckptFile = JsonFile(existing_results \o new_results)

\* A worker of the batch being gathered has not finished.
WorkerInFlight ==
    pc = "gather" /\ \E t \in BatchTasks(batch_i, NTasks) : stage[t] # "done"

\* C27: while a worker of a batch is in flight, all_results, new_results and
\* indexed_urls do not change: no step of a worker modifies them, and the
\* coordinating loop does only after the whole batch has completed. (A step
\* to "idle" is the end of the process, which discards the bot.)
C27_AccumulatorFrame ==
    [][(WorkerInFlight /\ pc' # "idle")
          => UNCHANGED <<all_results, new_results, indexed_urls>>]_vars

\* C27 witness: a worker has returned its record while another one of the
\* batch is still in flight, and the record is not yet in the accumulator.
C27_Witness ==
    /\ WorkerInFlight
    /\ \E t \in BatchTasks(batch_i, NTasks) :
          result[t].tag = "dict" /\ result[t].url \notin RecordUrls(all_results)

\* The tasks gone through by the loop of lines 424-430 whose result was a
\* dict.
Yielded == {t \in Collected : result[t].tag = "dict"}

\* The k-th task of D in submission order.
Nth(D, k) == CHOOSE t \in D : Cardinality({w \in D : w < t}) = k - 1

\* C36: the records of a run are appended in submission order, whatever the
\* order in which the workers finished: new_results holds the records of the
\* tasks that yielded one, in the order of the work list, and all_results is
\* the records loaded at startup followed by them.
C36_SubmissionOrder ==
    (pc # "idle" /\ ~earlyReturn) =>
        /\ Len(new_results) = Cardinality(Yielded)
        /\ \A k \in 1..Len(new_results) :
              new_results[k] = Record(TaskUrl(Nth(Yielded, k)), result[Nth(Yielded, k)].kind)
        /\ all_results = existing_results \o new_results

\* A batch was gathered in which a task finished before a task submitted
\* earlier, both yielded records and the run had loaded records at startup.
C36_Witness ==
    /\ pc = "flush"
    /\ overtook
    /\ existing_results # <<>>
    /\ \E t1, t2 \in Yielded \cap BatchTasks(batch_i, NTasks) : t1 < t2

\* The step is a successful save_to_json at the end of a run that had
\* scheduled at least one URL and went through all its batches.
NormalSave == pc = "save" /\ ~earlyReturn /\ pc' = "done" /\ saveOk'

\* C37: when a run that scheduled at least one URL completes and
\* save_to_json succeeds, the Repository file holds the records loaded at
\* startup followed by the records of this run, and there is no checkpoint
\* file.
C37_SavedRepository ==
    [][NormalSave =>
          /\ outFile' = JsonFile(existing_results \o new_results)
          /\ ckptFile' = AbsentFile]_vars

\* A run that loaded records, produced records, flushed them to a checkpoint
\* and then saved.
C37_Witness ==
    /\ pc = "done"
    /\ saveOk
    /\ ~earlyReturn
    /\ ~flushFailed
    /\ existing_results # <<>>
    /\ new_results # <<>>
    /\ outFile = JsonFile(existing_results \o new_results)
    /\ ckptFile = AbsentFile

\* ================================================ crawl phase: WebCrawler
\* Faulty variant of is_valid_url: every host is accepted (C13 must fail
\* with it).
is_valid_url_AnyHost(u, dom) == TRUE

\* is_valid_url: the URL's host is the target domain.
is_valid_url(u, dom) == u.host = dom

\* normalize_url: scheme, host and path; the fragment is dropped.
normalize_url(u) == Url(u.host, u.path, FALSE)

\* extract_links: the normalized anchors of the page that are on the domain.
extract_links(hs, dom) ==
    {n \in {normalize_url(h) : h \in hs} : is_valid_url(n, dom)}

\* Faulty variant of ToEnqueue: the test of line 98 inverted (C12 must
\* fail with it).
ToEnqueue_Inverted(link, visited) == link \in visited

\* Line 98: the test under which a link of the page is appended to to_visit.
ToEnqueue(link, visited) == link \notin visited

\* The orders in which "for link in page_links" may go through the set.
Orders(S) ==
    {o \in [1..Cardinality(S) -> S] : \A i, j \in 1..Cardinality(S) : o[i] = o[j] => i = j}

\* Lines 97-99: the links appended, going through the set in order o.
RECURSIVE Appended(_, _, _)
Appended(o, i, visited) ==
    IF i > Len(o) THEN <<>>
    ELSE (IF ToEnqueue(o[i], visited) THEN <<o[i]>> ELSE <<>>)
         \o Appended(o, i + 1, visited)

\* Anchors on the pages served so far.
Anchors(w) ==
    LET RECURSIVE Sum(_)
        Sum(P) == IF P = {} THEN 0
                  ELSE LET p == CHOOSE q \in P : TRUE
                       IN Cardinality(w[p].hrefs) + Sum(P \ {p})
    IN Sum(Paths)

\* Faulty variant of RequestFailed: the exception leaves get_page_content
\* (C28 must notice).
RequestFailed_Raising(url, failed) == [raised |-> TRUE, failed_urls |-> failed]

\* get_page_content lines 48-51: a RequestException (error status from
\* raise_for_status, timeout, connection error) is caught, the URL is appended
\* to failed_urls and None is returned.
RequestFailed(url, failed) == [raised |-> FALSE, failed_urls |-> Append(failed, url)]

\* Faulty variant of AlreadyVisited: the test of line 78 never holds (C32
\* must fail with it).
AlreadyVisited_Never(url, visited) == FALSE

\* Line 78: the test under which the dequeued URL is dropped unfetched.
AlreadyVisited(url, visited) == url \in visited

\* Faulty variant of CountAfterFetch: every fetch is counted, whatever it
\* returned (C35 must fail with it).
CountAfterFetch_Attempts(n, got) == n + 1

\* Lines 85-90: pages_crawled after a fetch; it is incremented only past the
\* "continue" of line 86, that is when the fetch returned content.
CountAfterFetch(n, got) == IF got THEN n + 1 ELSE n

\* Faulty variant of QueueAfterFailure: the URL whose fetch returned nothing
\* is put back at the end of the queue (C34 must fail with it).
QueueAfterFailure_Retry(queue) == Append(Tail(queue), Head(queue))

\* Lines 76 and 85-86: the queue after a fetch that returned nothing; the
\* URL was removed by popleft and "continue" does not put it back.
QueueAfterFailure(queue) == Tail(queue)

\* Faulty variant of LoopCondition: the page budget is not tested (C19
\* must fail with it).
LoopCondition_NoBudget == to_visit # <<>>

\* Line 75: the condition of the crawl loop.
LoopCondition == to_visit # <<>> /\ pages_crawled < max_pages

\* WebCrawler.__init__ (lines 10-20) and the entry into crawl() (line 71).
CrawlInit ==
    /\ web = [p \in Paths |-> UnknownPage]
    /\ base_url \in Seeds
    /\ domain = base_url.host
    /\ max_pages \in 1..(MaxPath + 2)
    /\ visited_urls = {}
    /\ all_links = {}
    /\ to_visit = <<base_url>>
    /\ failed_urls = <<>>
    /\ pages_crawled = 0
    /\ crawl_pc = "loop"
    /\ fetchCount = [u \in AllUrls |-> 0]
    /\ discoveredAt = [u \in AllUrls |-> IF u = base_url THEN 1 ELSE 0]
    /\ skipped = {}
    /\ lastFetch = NoFetch
    /\ fetchFaults = 0

\* Lines 76-79: the URL taken from the queue is already visited.
SkipVisited ==
    /\ crawl_pc = "loop"
    /\ LoopCondition
    /\ AlreadyVisited(Head(to_visit), visited_urls)
    /\ to_visit' = Tail(to_visit)
    /\ skipped' = skipped \cup {Head(to_visit)}
    /\ UNCHANGED <<web, base_url, domain, max_pages, visited_urls, all_links,
                   failed_urls, pages_crawled, crawl_pc, fetchCount, discoveredAt,
                   lastFetch, fetchFaults>>
    /\ UNCHANGED <<ixVars, ixHist, faults, pageFailed, overtook, searchVars,
                   extractVars>>

\* Lines 76-86 with get_page_content catching a RequestException (error
\* status, timeout, connection error): the URL goes to failed_urls, the
\* iteration ends.
FetchError ==
    /\ crawl_pc = "loop"
    /\ LoopCondition
    /\ ~AlreadyVisited(Head(to_visit), visited_urls)
    /\ fetchFaults < MaxFetchFaults
    /\ fetchFaults' = fetchFaults + 1
    /\ to_visit' = QueueAfterFailure(to_visit)
    /\ fetchCount' = [fetchCount EXCEPT ![Head(to_visit)] = @ + 1]
    /\ lastFetch' = FetchOf(Head(to_visit), "error")
    /\ pages_crawled' = CountAfterFetch(pages_crawled, FALSE)
    /\ LET r == RequestFailed(Head(to_visit), failed_urls)
       IN /\ failed_urls' = r.failed_urls
          /\ crawl_pc' = IF r.raised THEN "raised" ELSE crawl_pc
    /\ UNCHANGED <<web, base_url, domain, max_pages, visited_urls, all_links,
                   discoveredAt, skipped>>
    /\ UNCHANGED <<ixVars, ixHist, faults, pageFailed, overtook, searchVars,
                   extractVars>>

\* Lines 76-86 with the server answering 200 and an empty body: "not
\* html_content" holds, the iteration ends.
FetchEmpty ==
    /\ crawl_pc = "loop"
    /\ LoopCondition
    /\ ~AlreadyVisited(Head(to_visit), visited_urls)
    /\ fetchFaults < MaxFetchFaults
    /\ fetchFaults' = fetchFaults + 1
    /\ to_visit' = QueueAfterFailure(to_visit)
    /\ fetchCount' = [fetchCount EXCEPT ![Head(to_visit)] = @ + 1]
    /\ lastFetch' = FetchOf(Head(to_visit), "empty")
    /\ pages_crawled' = CountAfterFetch(pages_crawled, FALSE)
    /\ UNCHANGED <<web, base_url, domain, max_pages, visited_urls, all_links,
                   failed_urls, crawl_pc, discoveredAt, skipped>>
    /\ UNCHANGED <<ixVars, ixHist, faults, pageFailed, overtook, searchVars,
                   extractVars>>

\* Lines 76-102 with the page served: it is marked visited and its links are
\* recorded and queued. hs: the anchors of the page (chosen when the site
\* serves the page for the first time, the same ever after).
VisitPage(hs) ==
    /\ crawl_pc = "loop"
    /\ LoopCondition
    /\ LET current_url == Head(to_visit)
           page == current_url.path
       IN /\ ~AlreadyVisited(current_url, visited_urls)
          /\ IF web[page].known THEN hs = web[page].hrefs
             ELSE Anchors(web) + Cardinality(hs) <= MaxAnchors
          /\ web' = [web EXCEPT ![page] = KnownPage(hs)]
          /\ fetchCount' = [fetchCount EXCEPT ![current_url] = @ + 1]
          /\ lastFetch' = FetchOf(current_url, "content")
          /\ visited_urls' = visited_urls \cup {current_url}
          /\ pages_crawled' = CountAfterFetch(pages_crawled, TRUE)
          /\ LET page_links == extract_links(hs, domain)
             IN /\ all_links' = all_links \cup page_links
                /\ \E o \in Orders(page_links) :
                      /\ to_visit' = Tail(to_visit) \o Appended(o, 1, visited_urls')
                      /\ discoveredAt' =
                            [u \in AllUrls |->
                               IF discoveredAt[u] = 0
                                  /\ u \in Range(Appended(o, 1, visited_urls'))
                               THEN pages_crawled' + 1 ELSE discoveredAt[u]]
    /\ UNCHANGED <<base_url, domain, max_pages, failed_urls, crawl_pc, skipped,
                   fetchFaults>>
    /\ UNCHANGED <<ixVars, ixHist, faults, pageFailed, overtook, searchVars,
                   extractVars>>

\* Lines 75 and 104-105: the loop condition fails and crawl() returns.
CrawlReturn ==
    /\ crawl_pc = "loop"
    /\ ~LoopCondition
    /\ crawl_pc' = "returned"
    /\ UNCHANGED <<web, base_url, domain, max_pages, visited_urls, all_links,
                   to_visit, failed_urls, pages_crawled, fetchCount, discoveredAt,
                   skipped, lastFetch, fetchFaults>>
    /\ UNCHANGED <<ixVars, ixHist, faults, pageFailed, overtook, searchVars,
                   extractVars>>

NextCrawl ==
    \/ SkipVisited
    \/ FetchError
    \/ FetchEmpty
    \/ \E hs \in SUBSET Hrefs : VisitPage(hs)
    \/ CrawlReturn

InitCrawl ==
    /\ urls = NoRepeatList
    /\ outFile = AbsentFile
    /\ ckptFile = AbsentFile
    /\ max_concurrent = 1
    /\ max_links = 1
    /\ IndexIdle
    /\ CrawlInit
    /\ SearchIdle
    /\ ExtractIdle

SpecCrawl == InitCrawl /\ [][NextCrawl]_vars

\* ==================================================== crawl phase: claims
\* C1: in a crawl no URL is fetched more than once.
C1_FetchedAtMostOnce == \A u \in AllUrls : fetchCount[u] <= 1

\* The URLs reachable from S by following the links extract_links finds on
\* the pages of the site w.
RECURSIVE Reachable(_, _, _)
Reachable(S, w, dom) ==
    LET next == S \cup UNION {extract_links(w[u.path].hrefs, dom) : u \in S}
    IN IF next = S THEN S ELSE Reachable(next, w, dom)

\* crawl() has returned with its queue empty and no fetch of it failed or
\* came back empty.
DrainedCleanly == crawl_pc = "returned" /\ to_visit = <<>> /\ fetchFaults = 0

\* C12: when the crawl ends because its queue is empty and no fetch failed,
\* every URL reachable from the seed by following in-domain links is in
\* visited_urls and was fetched exactly once.
C12_DrainedCrawlVisitsReachable ==
    DrainedCleanly =>
        \A u \in Reachable({base_url}, web, domain) :
            u \in visited_urls /\ fetchCount[u] = 1

C12_Witness ==
    /\ DrainedCleanly
    /\ pages_crawled < max_pages
    /\ Cardinality(Reachable({base_url}, web, domain)) = MaxPath + 1

\* The URLs get_page_content was called on.
Fetched == {u \in AllUrls : fetchCount[u] > 0}

\* The URLs in the queue.
Queued == Range(to_visit)

\* C13: every URL the crawl enqueues, fetches or adds to the discovered set
\* has the target host; a link to another host is dropped.
C13_OnDomainOnly ==
    \A u \in Queued \cup Fetched \cup all_links \cup visited_urls : u.host = domain

C13_Witness ==
    /\ crawl_pc = "returned"
    /\ \E p \in Paths : web[p].known /\ Url("x", 0, FALSE) \in web[p].hrefs
    /\ Cardinality(visited_urls) >= 2

\* C14: breadth-first order: if u1 was first enqueued strictly before u2,
\* then u1 enters visited_urls no later than u2, whatever fetches succeed or
\* fail. As visited_urls only grows, this is: no state has u2 visited while
\* a URL enqueued strictly before it is not.
C14_VisitedInDiscoveryOrder ==
    \A u1, u2 \in AllUrls :
        (/\ discoveredAt[u1] > 0
         /\ discoveredAt[u1] < discoveredAt[u2]
         /\ u2 \in visited_urls) => u1 \in visited_urls

\* C15: once the crawl has attempted to fetch a URL, the URL is in
\* visited_urls, whether the fetch succeeded or failed; a URL in failed_urls
\* counts as visited.
C15_AttemptedIsVisited ==
    \A u \in Fetched \cup Range(failed_urls) : u \in visited_urls

\* C16: at every iteration boundary of the crawl loop no URL of visited_urls
\* is in to_visit.
C16_QueueDisjointFromVisited == Queued \cap visited_urls = {}

\* save_results: one row per URL of all_links, with the status "Visited" if
\* the URL is in visited_urls and "Discovered" otherwise.
save_results(links, visited) ==
    {[url |-> u, status |-> IF u \in visited THEN "Visited" ELSE "Discovered"] :
        u \in links}

\* C17: at every point of a crawl all_links contains visited_urls and the
\* queued URLs, the seed included, so every visited URL has a row in the
\* output of save_results.
C17_DiscoveredCoversFrontier ==
    /\ (visited_urls \cup Queued) \subseteq all_links
    /\ visited_urls \subseteq {r.url : r \in save_results(all_links, visited_urls)}

\* The site of the scenario: the seed page / (page 0) holds a link to /about
\* (page 1) and a link to another host, /about holds no link, and the crawl,
\* whose budget is larger than the site, has returned with no failed fetch.
ExampleOrgCrawled ==
    /\ crawl_pc = "returned"
    /\ base_url = Url("t", 0, FALSE)
    /\ max_pages = MaxPath + 2
    /\ fetchFaults = 0
    /\ web[0] = KnownPage({Url("t", 1, FALSE), Url("x", 0, FALSE)})
    /\ web[1].known => web[1].hrefs = {}

\* C18: on that site the crawl ends with visited exactly {/, /about},
\* discovered exactly the same two URLs, and no fetch of a URL of the other
\* host.
C18_ExampleOrgScenario ==
    ExampleOrgCrawled =>
        /\ visited_urls = {Url("t", 0, FALSE), Url("t", 1, FALSE)}
        /\ all_links = {Url("t", 0, FALSE), Url("t", 1, FALSE)}
        /\ \A u \in Fetched : u.host # "x"

\* C19: the number of visited pages never exceeds max_pages, and when crawl
\* has returned either to_visit is empty or exactly max_pages pages have been
\* visited; returning at the budget with URLs still queued is a normal
\* return that leaves them in the queue.
C19_BudgetRespected ==
    /\ pages_crawled <= max_pages
    /\ Cardinality(visited_urls) <= max_pages
    /\ crawl_pc = "returned" =>
          to_visit = <<>> \/ Cardinality(visited_urls) = max_pages

C19_Witness ==
    /\ crawl_pc = "returned"
    /\ Cardinality(visited_urls) = max_pages
    /\ \E u \in Queued : u \notin visited_urls

\* C28: a fetch failure in the crawler is never raised out of the fetch: the
\* URL is recorded in failed_urls and the crawl goes on with the rest of the
\* queue.
C28_FetchFailureIsRecorded ==
    /\ crawl_pc # "raised"
    /\ lastFetch.outcome = "error" =>
          /\ failed_urls # <<>>
          /\ failed_urls[Len(failed_urls)] = lastFetch.url
          /\ crawl_pc \in {"loop", "returned"}

\* C28 witness: after a failed fetch the crawl has gone on to another URL.
C28_Witness ==
    /\ failed_urls # <<>>
    /\ lastFetch.outcome = "content"
    /\ lastFetch.url \notin Range(failed_urls)

\* The URLs the crawler keeps track of.
Tracked == Queued \cup visited_urls \cup all_links

\* C30: every URL in to_visit, visited_urls and all_links, the seed included,
\* is in normalized form; normalize_url is idempotent; and so no page is
\* tracked under two different URLs.
C30_TrackedUrlsNormalized ==
    /\ \A u \in Tracked : normalize_url(u) = u
    /\ \A u \in AllUrls : normalize_url(normalize_url(u)) = normalize_url(u)
    /\ \A u1, u2 \in Tracked :
          (u1.host = u2.host /\ u1.path = u2.path) => u1 = u2

\* C32: a URL that is in visited_urls (its fetch returned content) is never
\* passed to get_page_content again, however many times it is in the queue.
C32_VisitedNeverRefetched ==
    [][\A u \in visited_urls : fetchCount'[u] = fetchCount[u]]_vars

\* A crawl that returned after it dropped, at line 79, a URL that several
\* pages had queued before it was visited; the URL was fetched once.
C32_Witness ==
    /\ crawl_pc = "returned"
    /\ \E u \in skipped : u \in visited_urls /\ fetchCount[u] = 1

\* C33: every URL that was dequeued and passed to get_page_content is in
\* exactly one of visited_urls and failed_urls, whatever the fetch returned,
\* and no URL is in failed_urls twice.
C33_AttemptedEndsVisitedOrFailed ==
    /\ \A u \in Fetched : (u \in visited_urls) # (u \in Range(failed_urls))
    /\ \A i, j \in 1..Len(failed_urls) : failed_urls[i] = failed_urls[j] => i = j

\* The URLs of the site that are not yet in visited_urls.
Unvisited == Cardinality(AllUrls \ visited_urls)

\* The pages served so far that have an anchor to u.
LinkingPages(u) == {p \in Paths : web[p].known /\ u \in extract_links(web[p].hrefs, domain)}

\* C34: crawl terminates, whatever the link graph, max_pages and the fetch
\* outcomes: every iteration of the loop either is the last, or marks a new
\* URL visited, or leaves visited_urls alone and shortens the queue, so the
\* pair (unvisited URLs, queue length) descends in the lexicographic order
\* and no crawl has infinitely many iterations.
C34_EveryIterationDescends ==
    [][\/ crawl_pc' = "returned"
       \/ Unvisited' < Unvisited
       \/ Unvisited' = Unvisited /\ Len(to_visit') < Len(to_visit)]_vars

\* A crawl that returned although a URL linked from two pages failed at
\* every fetch.
C34_Witness ==
    /\ crawl_pc = "returned"
    /\ \E u \in AllUrls :
          /\ u \notin visited_urls
          /\ fetchCount[u] >= 2
          /\ Cardinality(LinkingPages(u)) >= 2

\* The step is an iteration whose fetch returned nothing (an error or an
\* empty body).
FailedFetchStep ==
    /\ fetchCount' # fetchCount
    /\ lastFetch'.outcome \in {"error", "empty"}

\* C35: before and after every iteration pages_crawled is the size of
\* visited_urls, and an iteration whose fetch failed changes neither of
\* them nor the discovered set all_links.
C35_BudgetCountsVisits ==
    [][/\ pages_crawled = Cardinality(visited_urls)
       /\ pages_crawled' = Cardinality(visited_urls')
       /\ FailedFetchStep => UNCHANGED <<pages_crawled, visited_urls, all_links>>]_vars

\* A crawl that used its whole page budget on visits although some of its
\* fetches failed: it made more fetches than max_pages.
C35_Witness ==
    /\ crawl_pc = "returned"
    /\ fetchFaults > 0
    /\ pages_crawled = max_pages
    /\ Cardinality(visited_urls) = max_pages

\* ====================================================== search: SearchBot
\* The similarities fuzz.ratio / fuzz.partial_ratio may report for a field:
\* none, exactly the threshold, a full match.
Similarities == {0, threshold, 100}

\* An item of indexed_data, as far as the query sees it: the similarity of
\* its keyword, description, title and main topic to the query.
Items ==
    [kw : Similarities, desc : {0, 100}, title : {0, 100}, topic : {0, 100}]

\* Lines 60-86: what a field adds to the score, in tenths.
Contribution(similarity, weight) ==
    IF similarity > threshold THEN similarity * weight ELSE 0

\* Lines 55-87: the score of an item.
Score(item) ==
    Contribution(item.kw, KeywordWeight)
    + Contribution(item.desc, DescriptionWeight)
    + Contribution(item.title, TitleWeight)
    + Contribution(item.topic, TopicWeight)

\* Line 89: the item goes into the results.
Matches(score) == score > 0

\* Faulty variant of ComesBefore: results.sort without reverse=True (C29
\* must notice).
ComesBefore_Ascending(a, b) == a.search_score <= b.search_score

\* Line 96, results.sort(key=search_score, reverse=True): a stays ahead of a
\* later element b if its score is not smaller (the sort is stable).
ComesBefore(a, b) == a.search_score >= b.search_score

\* The sorted list with one more element, which came after all of them.
RECURSIVE Insert(_, _)
Insert(sorted, r) ==
    IF sorted = <<>> THEN <<r>>
    ELSE IF ComesBefore(Head(sorted), r)
         THEN <<Head(sorted)>> \o Insert(Tail(sorted), r)
         ELSE <<r>> \o sorted

\* Line 96: the list sorted.
RECURSIVE Sorted(_)
Sorted(rs) ==
    IF rs = <<>> THEN <<>>
    ELSE Insert(Sorted(SubSeq(rs, 1, Len(rs) - 1)), rs[Len(rs)])

\* The sequences of at most n items.
ItemLists(n) == UNION {[1..k -> Items] : k \in 0..n}

\* search_by_keywords is called on a SearchBot that has loaded its items
\* (lines 29-39, 52-53).
SearchInit ==
    /\ indexed_data \in ItemLists(MaxItems)
    /\ search_results = <<>>
    /\ item_i = 0
    /\ search_pc = "loop"

\* Lines 55-93: one iteration of the loop over indexed_data.
ScoreItem ==
    /\ search_pc = "loop"
    /\ item_i < Len(indexed_data)
    /\ item_i' = item_i + 1
    /\ LET score == Score(indexed_data[item_i + 1])
       IN search_results' =
             IF Matches(score)
             THEN Append(search_results, [item |-> item_i + 1, search_score |-> score])
             ELSE search_results
    /\ UNCHANGED <<indexed_data, search_pc>>
    /\ UNCHANGED <<ixVars, ixHist, faults, pageFailed, overtook, crawlVars,
                   extractVars>>

\* Lines 96-97: the results are sorted and returned.
SearchReturn ==
    /\ search_pc = "loop"
    /\ item_i = Len(indexed_data)
    /\ search_results' = Sorted(search_results)
    /\ search_pc' = "returned"
    /\ UNCHANGED <<indexed_data, item_i>>
    /\ UNCHANGED <<ixVars, ixHist, faults, pageFailed, overtook, crawlVars,
                   extractVars>>

NextSearch ==
    \/ ScoreItem
    \/ SearchReturn

InitSearch ==
    /\ urls = NoRepeatList
    /\ outFile = AbsentFile
    /\ ckptFile = AbsentFile
    /\ max_concurrent = 1
    /\ max_links = 1
    /\ IndexIdle
    /\ CrawlIdle
    /\ SearchInit
    /\ ExtractIdle

SpecSearch == InitSearch /\ [][NextSearch]_vars

\* C29: search_by_keywords returns its results ordered by descending
\* search_score, and every returned item has a score greater than zero.
C29_ResultsDescendingAndPositive ==
    search_pc = "returned" =>
        /\ \A i \in 1..(Len(search_results) - 1) :
              search_results[i].search_score >= search_results[i + 1].search_score
        /\ \A i \in 1..Len(search_results) : search_results[i].search_score > 0

\* C29 witness: a search returned a later item ahead of an earlier one with
\* a smaller score, and left out an item that did not match.
C29_Witness ==
    /\ search_pc = "returned"
    /\ Len(search_results) >= 2
    /\ Len(search_results) < Len(indexed_data)
    /\ search_results[1].item > search_results[2].item
    /\ search_results[1].search_score > search_results[2].search_score

\* ========================================= extraction: the page extractors
\* WebIndexerBot.extract_clean_content (src/indexer.py) and
\* AIWebsiteIndexer.extract_webpage_content (src/indexer_crawler.py), from the
\* cleaned text and the anchors of the page to the dict returned.
Extractors == {"WebIndexerBot", "AIWebsiteIndexer"}

\* The character cap of each extractor (indexer.py line 204,
\* indexer_crawler.py line 85).
ContentCap(e) == IF e = "WebIndexerBot" THEN markdown_content_cap ELSE main_content_cap

\* The link cap of each extractor (indexer.py line 205, indexer_crawler.py
\* line 101).
LinksCap(e) == IF e = "WebIndexerBot" THEN internal_links_cap ELSE links_cap

\* A text of n characters; the characters differ from place to place.
Text(n, shift) == [i \in 1..n |-> (i + shift) % 3]

\* Lengths of cleaned text tried against a cap: empty, one character, and
\* around the cap.
TextLengths(cap) == {0, 1} \cup ((cap - 1)..(cap + MaxOver))

\* Numbers of anchors tried against a cap: none, one, and around the cap,
\* with room for one anchor that is not a link.
AnchorCounts(cap) == {0, 1} \cup ((cap - 1)..(cap + MaxOver + 1))

\* An <a href> element: a link of the site with text, a link with text to
\* another host, or an anchor without text.
Anchor(k, kind) == [id |-> k, kind |-> kind]

\* The anchor lists tried: m anchors, all of them links of the site except
\* at most one, the first or the last.
AnchorLists(cap) ==
    UNION {{[k \in 1..m |-> Anchor(k, IF k = j THEN odd ELSE "link")] :
               j \in {0, 1, m}, odd \in {"external", "notext"}} :
           m \in AnchorCounts(cap)}

\* The test under which the loop over the anchors appends one to the list:
\* indexer.py lines 189-195 (href and text, and internal), indexer_crawler.py
\* lines 91-94 (href and text).
IsLink(e, a) ==
    IF e = "WebIndexerBot" THEN a.kind = "link" ELSE a.kind \in {"link", "external"}

\* indexer.py lines 182-199, indexer_crawler.py lines 88-95: the links found,
\* in document order.
FoundLinks(e, as) ==
    LET Test(a) == IsLink(e, a)
    IN SelectSeq(as, Test)

\* Faulty variant of Slice: nothing is cut off (C31 must notice).
Slice_Uncapped(s, n) == s

\* The Python slice s[:n].
Slice(s, n) == SubSeq(s, 1, Min(Len(s), n))

\* A page has been fetched and its text cleaned (indexer.py line 179,
\* indexer_crawler.py line 82).
ExtractInit ==
    /\ extractor \in Extractors
    /\ cleaned_text \in {Text(n, shift) : n \in TextLengths(ContentCap(extractor)),
                                           shift \in 0..MaxShift}
    /\ page_anchors \in AnchorLists(LinksCap(extractor))
    /\ content = <<>>
    /\ internal_links = <<>>
    /\ extract_pc = "cleaned"

\* WebIndexerBot.extract_clean_content, lines 181-208.
extract_clean_content ==
    /\ extract_pc = "cleaned"
    /\ extractor = "WebIndexerBot"
    /\ content' = Slice(cleaned_text, markdown_content_cap)
    /\ internal_links' = Slice(FoundLinks(extractor, page_anchors), internal_links_cap)
    /\ extract_pc' = "extracted"
    /\ UNCHANGED <<extractor, cleaned_text, page_anchors>>
    /\ UNCHANGED <<ixVars, ixHist, faults, pageFailed, overtook, crawlVars, searchVars>>

\* AIWebsiteIndexer.extract_webpage_content, lines 84-102.
extract_webpage_content ==
    /\ extract_pc = "cleaned"
    /\ extractor = "AIWebsiteIndexer"
    /\ content' = Slice(cleaned_text, main_content_cap)
    /\ internal_links' = Slice(FoundLinks(extractor, page_anchors), links_cap)
    /\ extract_pc' = "extracted"
    /\ UNCHANGED <<extractor, cleaned_text, page_anchors>>
    /\ UNCHANGED <<ixVars, ixHist, faults, pageFailed, overtook, crawlVars, searchVars>>

NextExtract ==
    \/ extract_clean_content
    \/ extract_webpage_content

InitExtract ==
    /\ urls = NoRepeatList
    /\ outFile = AbsentFile
    /\ ckptFile = AbsentFile
    /\ max_concurrent = 1
    /\ max_links = 1
    /\ IndexIdle
    /\ CrawlIdle
    /\ SearchIdle
    /\ ExtractInit

SpecExtract == InitExtract /\ [][NextExtract]_vars

\* ===================================================== extraction: claims
\* p is a prefix of s.
IsPrefix(p, s) == Len(p) <= Len(s) /\ \A i \in 1..Len(p) : p[i] = s[i]

\* C31: the extracted text has at most 8000 characters (WebIndexerBot) or
\* 4000 (AIWebsiteIndexer) and is a prefix of the cleaned text; the extracted
\* link list has at most 20 entries and is the first 20 of the links found,
\* in their order.
C31_ExtractionCaps ==
    extract_pc = "extracted" =>
        /\ Len(content) <= (IF extractor = "WebIndexerBot" THEN 8000 ELSE 4000)
        /\ IsPrefix(content, cleaned_text)
        /\ Len(internal_links) = Min(20, Len(FoundLinks(extractor, page_anchors)))
        /\ IsPrefix(internal_links, FoundLinks(extractor, page_anchors))

\* A page with more text than the cap and more than 20 links, one of its
\* first 20 anchors not a link, has been extracted.
C31_Witness ==
    /\ extract_pc = "extracted"
    /\ Len(cleaned_text) > ContentCap(extractor)
    /\ Len(content) = ContentCap(extractor)
    /\ Len(FoundLinks(extractor, page_anchors)) > 20
    /\ Len(FoundLinks(extractor, page_anchors)) < Len(page_anchors)
    /\ Len(internal_links) = 20

====
